---- MODULE Spec2Model ----
(***************************************************************************)
(* Entity resolution and mention linking of NotionManager.                 *)
(*                                                                         *)
(*   update_meeting.py   create_rich_text_with_entity_links,               *)
(*                       create_rich_text_with_people_links and the store  *)
(*                       look-ups they call                                *)
(*   people_manager.py   PeopleManager: the cached, paginated directory    *)
(*                       of people and the creation of a person            *)
(*                                                                         *)
(* A string is a sequence of one-character strings.  A store record is     *)
(* [id, title]: title is the Notion title array, a sequence of at most one *)
(* string here (the code reads title[0] only), empty for an untitled page. *)
(***************************************************************************)
EXTENDS Integers, Sequences, FiniteSets, TLC

VARIABLES
    \* ---- the external store (Notion) ----
    store_people,      \* records of the People database, in listing order
    store_projects,    \* records of the Projects database, in listing order
    \* ---- the environment of update_meeting.py ----
    env,               \* which of NOTION_TOKEN, PEOPLE_DATABASE_ID, PROJECTS_DATABASE_ID are set
    \* ---- one call of a create_rich_text_with_* function ----
    fn,                \* "entity" | "people": the function called
    text,              \* its argument
    lpc,               \* "start" | "loop" | "done": where the call is
    all_variations,    \* the length-sorted variations (the names, for "people")
    remaining_text,    \* the unconsumed suffix
    earliest_match,    \* the match the last loop iteration chose, NoMatch for none
    rich_text_parts,   \* the parts built so far; the result once lpc = "done"
    \* ---- one PeopleManager and its caller ----
    people_cache,      \* self._people_cache: NoCache (None) or Cached(list)
    dpc,               \* "idle" | "load": whether a get_all_people load is running
    all_people,        \* the records a running load has collected
    has_more,          \* has_more of the running load
    start_cursor,      \* start_cursor of the running load, NoCursor for None
    ret,               \* what the last finished call returned
    outcome,           \* how it ended: "cached" | "loaded" | "failed" (get_all_people),
                       \* "created" | "create_failed" (create_person); "pending" during a
                       \* load, "none" before the first call
    created_since,     \* history: ids of the people created since get_all_people last returned
    \* ---- the last find_matching_person call ----
    find_name,         \* its name argument
    find_threshold,    \* its threshold argument, a fraction [n, d]
    find_people,       \* people: what its get_all_people() returned
    find_result,       \* what it returned: a record, NoRecord for None
    \* ---- one resolve_people_in_text call ----
    rpc,               \* "idle" | "find" | "classify" | "done": where the call is
    potential_names,   \* what extract_person_names returned
    create_missing,    \* its create_missing argument
    name_idx,          \* the position in potential_names of the for loop
    resolved_people,   \* the records collected so far
    unresolved_names,  \* the names collected so far
    create_log,        \* history: the create requests of the call, [name, ok] each
    \* ---- a second caller of the same PeopleManager, and the wire ----
    page_in_flight,    \* the page the store has answered and the load has not yet read
    cpc,               \* "idle" | "posted": whether a create_person awaits its answer
    person_in_flight,  \* the record the store has made and create_person has not yet read
    overlapped,        \* history: the awaited create was sent during the load now running
    raced,             \* history: ids of the people created start to end during one load
    \* ---- one extract_person_names call ----
    xpc,               \* "start" | "done": where the call is
    extract_text,      \* its argument
    extracted,         \* potential_names, the set it has collected
    \* ---- a TranscriptProcessor, its NotionManager and one meeting ----
    mpc,               \* "new" | "idle" | "linking" | "post" | "done": before the
                       \* constructor, between calls, in the try block of
                       \* add_meeting_page, before its page request, after the call
    tp_people_manager, \* whether TranscriptProcessor.people_manager is set
    nm_people_manager, \* whether NotionManager.people_manager is set
    people_list,       \* TranscriptProcessor.people_list: the names given to the LLM
    auto_link_people,  \* the argument of create_meeting_from_transcript
    link_raised,       \* history: the try block of add_meeting_page raised
    relation,          \* the people relation put into the page properties, NoRelation for none
    page_requests,     \* history: how many page requests add_meeting_page has sent
    page_accepted,     \* history: whether the store accepted the page request
    meeting_ret        \* what the call returned: "page", "empty", "none" (None), "unset" before

linkVars == <<env, fn, text, lpc, all_variations, remaining_text, earliest_match,
              rich_text_parts>>
storeVars == <<store_people, store_projects>>
dirVars == <<people_cache, dpc, all_people, has_more, start_cursor, ret, outcome,
             created_since>>
findVars == <<find_name, find_threshold, find_people, find_result>>
resVars == <<rpc, potential_names, create_missing, name_idx, resolved_people,
             unresolved_names, create_log>>
conVars == <<page_in_flight, cpc, person_in_flight, overlapped, raced>>
extVars == <<xpc, extract_text, extracted>>
meetVars == <<mpc, tp_people_manager, nm_people_manager, people_list, auto_link_people,
              link_raised, relation, page_requests, page_accepted, meeting_ret>>
vars == <<store_people, store_projects, env, fn, text, lpc, all_variations,
          remaining_text, earliest_match, rich_text_parts, people_cache, dpc,
          all_people, has_more, start_cursor, ret, outcome, created_since,
          find_name, find_threshold, find_people, find_result,
          rpc, potential_names, create_missing, name_idx, resolved_people,
          unresolved_names, create_log,
          page_in_flight, cpc, person_in_flight, overlapped, raced,
          xpc, extract_text, extracted,
          mpc, tp_people_manager, nm_people_manager, people_list, auto_link_people,
          link_raised, relation, page_requests, page_accepted, meeting_ret>>

\* ------------------------------------------------------------------ bounds
MaxPieces == 2      \* a text is at most this many pieces long
MaxPeople == 1      \* records in the People database
MaxProjects == 1    \* records in the Projects database
MaxDirectory == 3   \* records in the People database a PeopleManager lists

\* ----------------------------------------------------------------- strings
Min(S) == CHOOSE x \in S : \A y \in S : x <= y
Max(S) == CHOOSE x \in S : \A y \in S : x >= y

RECURSIVE Concat(_)
\* "".join(ss) for a sequence of strings
Concat(ss) == IF ss = <<>> THEN <<>> ELSE Head(ss) \o Concat(Tail(ss))

\* str.lower / re.IGNORECASE on the characters of the model's alphabet
Lower(c) == CASE c = "A" -> "a" [] c = "B" -> "b" [] OTHER -> c

LowerStr(s) == [i \in 1..Len(s) |-> Lower(s[i])]

\* The literals of the variation templates f"{name} project", f"the {name} project"
ProjectSuffix == <<" ", "p", "r", "o", "j", "e", "c", "t">>
ThePrefix == <<"t", "h", "e", " ">>

\* pattern.match at 0-based offset i of s, ignoring case; pat is a literal (re.escape)
MatchesAt(pat, s, i) == \A k \in 1..Len(pat) : Lower(s[i + k]) = Lower(pat[k])

\* re.compile(re.escape(pat), re.IGNORECASE).search(s): the 0-based start of the
\* leftmost match, -1 for no match.  The empty pattern matches at 0.
Search(pat, s) ==
    LET starts == {i \in 0..(Len(s) - Len(pat)) : MatchesAt(pat, s, i)}
    IN  IF starts = {} THEN -1 ELSE Min(starts)

\* s[i:] for a 0-based offset i
From(s, i) == SubSeq(s, i + 1, Len(s))
\* s[:i]
Upto(s, i) == SubSeq(s, 1, i)

\* ------------------------------------------------------- difflib similarity
\* Whether a[i:i+k] = b[j:j+k] (0-based offsets)
SameBlock(a, b, i, j, k) == \A d \in 1..k : a[i + d] = b[j + d]

\* SequenceMatcher.find_longest_match(alo, ahi, blo, bhi) with no junk: the longest
\* common block, of those the one starting earliest in a, of those the one starting
\* earliest in b; <<alo, blo, 0>> when the ranges share no character.
LongestMatch(a, b, alo, ahi, blo, bhi) ==
    LET Has(k) == \E i \in alo..(ahi - k) : \E j \in blo..(bhi - k) : SameBlock(a, b, i, j, k)
        sizes  == {k \in 1..Min({ahi - alo, bhi - blo}) : Has(k)}
    IN  IF sizes = {} THEN <<alo, blo, 0>>
        ELSE LET k == Max(sizes)
                 i == Min({x \in alo..(ahi - k) :
                             \E j \in blo..(bhi - k) : SameBlock(a, b, x, j, k)})
                 j == Min({y \in blo..(bhi - k) : SameBlock(a, b, i, y, k)})
             IN  <<i, j, k>>

RECURSIVE MatchCount(_, _, _, _, _, _)
\* The sum of the sizes of SequenceMatcher.get_matching_blocks(): the longest block,
\* then the same to its left and to its right
MatchCount(a, b, alo, ahi, blo, bhi) ==
    LET m == LongestMatch(a, b, alo, ahi, blo, bhi)
    IN  IF m[3] = 0 THEN 0
        ELSE m[3]
             + (IF alo < m[1] /\ blo < m[2]
                  THEN MatchCount(a, b, alo, m[1], blo, m[2]) ELSE 0)
             + (IF m[1] + m[3] < ahi /\ m[2] + m[3] < bhi
                  THEN MatchCount(a, b, m[1] + m[3], ahi, m[2] + m[3], bhi) ELSE 0)

\* SequenceMatcher(None, a, b).ratio() = 2.0 * matches / (len(a) + len(b)), 1.0 for two
\* empty strings, kept as the fraction n/d
Ratio(a, b) ==
    IF Len(a) + Len(b) = 0 THEN [n |-> 1, d |-> 1]
    ELSE [n |-> 2 * MatchCount(a, b, 0, Len(a), 0, Len(b)), d |-> Len(a) + Len(b)]

\* score > best_score
ScoreGT(s, t) == s.n * t.d > t.n * s.d
\* score >= 0.8, the similarity threshold of the link look-ups
ScoreGE80(s) == 5 * s.n >= 4 * s.d
ZeroScore == [n |-> 0, d |-> 1]

\* ------------------------------------------------------------ store queries
PageSize == 2       \* records the store returns per query page

\* The results of a database query with an empty body: the first page
FirstPage(db) == SubSeq(db, 1, Min({PageSize, Len(db)}))

RECURSIVE TitlesOf(_)
\* The names get_all_people_names / get_all_project_names collect from the results:
\* title[0] of every record that has a title
TitlesOf(results) ==
    IF results = <<>> THEN <<>>
    ELSE (IF Head(results).title # <<>> THEN <<Head(results).title[1]>> ELSE <<>>)
         \o TitlesOf(Tail(results))

get_all_people_names(ok) ==
    IF ~env.notion_token \/ ~env.people_db_id \/ ~ok THEN <<>>
    ELSE TitlesOf(FirstPage(store_people))

get_all_project_names(ok) ==
    IF ~env.notion_token \/ ~env.projects_db_id \/ ~ok THEN <<>>
    ELSE TitlesOf(FirstPage(store_projects))

NoRecord == [none |-> TRUE]

RECURSIVE BestMatch(_, _, _, _, _)
\* The loop of get_person_link / get_project_link over the results: the first record
\* with the highest score, provided the score is at least 0.8
BestMatch(results, k, name, best_match, best_score) ==
    IF k > Len(results) THEN best_match
    ELSE IF results[k].title = <<>>
         THEN BestMatch(results, k + 1, name, best_match, best_score)
         ELSE LET score == Ratio(LowerStr(name), LowerStr(results[k].title[1]))
              IN  IF ScoreGT(score, best_score) /\ ScoreGE80(score)
                    THEN BestMatch(results, k + 1, name, results[k], score)
                    ELSE BestMatch(results, k + 1, name, best_match, best_score)

PageUrl(page_id) == [url |-> page_id]
NoLink == [none |-> TRUE]

\* ok: the query succeeded (a failed one is caught and gives None)
get_person_link(attendee_name, ok) ==
    IF ~env.notion_token \/ ~env.people_db_id \/ ~ok THEN NoLink
    ELSE LET best == BestMatch(FirstPage(store_people), 1, attendee_name, NoRecord, ZeroScore)
         IN  IF best = NoRecord THEN NoLink ELSE PageUrl(best.id)

get_project_link(project_name, ok) ==
    IF ~env.notion_token \/ ~env.projects_db_id \/ ~ok THEN NoLink
    ELSE LET best == BestMatch(FirstPage(store_projects), 1, project_name, NoRecord, ZeroScore)
         IN  IF best = NoRecord THEN NoLink ELSE PageUrl(best.id)

\* ------------------------------------------------------------ mention linker
\* entity['variations'] of a person / of a project
Variations(name, type) ==
    IF type = "person" THEN <<name, name \o ProjectSuffix>>
    ELSE <<name, name \o ProjectSuffix, ThePrefix \o name \o ProjectSuffix>>

RECURSIVE EntitiesOf(_, _)
\* One entity per name, in the order of the names
EntitiesOf(names, type) ==
    IF names = <<>> THEN <<>>
    ELSE <<[name |-> Head(names), type |-> type]>> \o EntitiesOf(Tail(names), type)

RECURSIVE VariationsOf(_)
\* all_variations before the sort: every variation of every entity, entity by entity
VariationsOf(entities) ==
    IF entities = <<>> THEN <<>>
    ELSE LET e == Head(entities)
             v == Variations(e.name, e.type)
         IN  [i \in 1..Len(v) |-> [text |-> v[i], entity |-> e]] \o VariationsOf(Tail(entities))

RECURSIVE WithKey(_, _, _, _)
\* The elements of seq from index i on whose key is n, in their order
WithKey(seq, keys, n, i) ==
    IF i > Len(seq) THEN <<>>
    ELSE (IF keys[i] = n THEN <<seq[i]>> ELSE <<>>) \o WithKey(seq, keys, n, i + 1)

RECURSIVE SortFrom(_, _, _)
SortFrom(seq, keys, n) ==
    IF n < 0 THEN <<>>
    ELSE WithKey(seq, keys, n, 1) \o SortFrom(seq, keys, n - 1)

\* list.sort(key=..., reverse=True), keys[i] in Nat being the key of seq[i]: descending,
\* and stable (elements with equal keys keep their order)
SortDesc(seq, keys) ==
    IF seq = <<>> THEN <<>>
    ELSE SortFrom(seq, keys, Max({keys[i] : i \in 1..Len(keys)}))

NoMatch == [some |-> FALSE]

RECURSIVE ScanVariationsFirst(_, _, _, _, _)
\* Mutant: the first variation that matches is kept, wherever it matches
ScanVariationsFirst(variations, k, remaining, earliest_pos, match) ==
    IF k > Len(variations) THEN match
    ELSE LET v     == variations[k]
             start == Search(v.text, remaining)
         IN  IF start >= 0 /\ start < Len(remaining) /\ ~match.some
               THEN ScanVariationsFirst(variations, k + 1, remaining, start,
                        [some |-> TRUE, entity |-> v.entity, start |-> start,
                         end |-> start + Len(v.text),
                         matched_text |-> SubSeq(remaining, start + 1, start + Len(v.text))])
               ELSE ScanVariationsFirst(variations, k + 1, remaining, earliest_pos, match)

RECURSIVE ScanVariationsCanonical(_, _, _, _, _)
\* Mutant: the matched text is the variation's own string, not the slice of the text
ScanVariationsCanonical(variations, k, remaining, earliest_pos, match) ==
    IF k > Len(variations) THEN match
    ELSE LET v     == variations[k]
             start == Search(v.text, remaining)
         IN  IF start >= 0 /\ start < earliest_pos
               THEN ScanVariationsCanonical(variations, k + 1, remaining, start,
                        [some |-> TRUE, entity |-> v.entity, start |-> start,
                         end |-> start + Len(v.text), matched_text |-> v.text])
               ELSE ScanVariationsCanonical(variations, k + 1, remaining, earliest_pos, match)

RECURSIVE ScanVariations(_, _, _, _, _)
\* The for loop over all_variations of one while iteration: a variation replaces the
\* match kept so far only if its leftmost match starts strictly before earliest_pos
ScanVariations(variations, k, remaining, earliest_pos, match) ==
    IF k > Len(variations) THEN match
    ELSE LET v     == variations[k]
             start == Search(v.text, remaining)
         IN  IF start >= 0 /\ start < earliest_pos
               THEN ScanVariations(variations, k + 1, remaining, start,
                        [some |-> TRUE, entity |-> v.entity, start |-> start,
                         end |-> start + Len(v.text),
                         matched_text |-> SubSeq(remaining, start + 1, start + Len(v.text))])
               ELSE ScanVariations(variations, k + 1, remaining, earliest_pos, match)

\* earliest_match after the for loop, for the remaining text
EarliestMatch(variations, remaining) ==
    ScanVariations(variations, 1, remaining, Len(remaining), NoMatch)

PlainPart(content) == [content |-> content]
\* The part appended for a match: linked when the look-up gave a page
EntityPart(content, link) ==
    IF link = NoLink THEN [content |-> content]
    ELSE [content |-> content, link |-> link]

\* Mutant: the advance skips one character too many
AdvanceOneMore(remaining, match) == From(remaining, match.end + 1)

\* remaining_text after a match is consumed
Advance(remaining, match) == From(remaining, match.end)

\* Mutant: the plain part before a match runs to the end of the match
MatchPartsOverlap(remaining, match, link) ==
    (IF match.start > 0 THEN <<PlainPart(Upto(remaining, match.end))>> ELSE <<>>)
    \o <<EntityPart(match.matched_text, link)>>

\* The parts one while iteration appends for a match
MatchParts(remaining, match, link) ==
    (IF match.start > 0 THEN <<PlainPart(Upto(remaining, match.start))>> ELSE <<>>)
    \o <<EntityPart(match.matched_text, link)>>

\* Mutant: the variations are left unsorted
SortVariationsMissing(variations) == variations

\* all_variations.sort(key=lambda x: len(x['text']), reverse=True)
SortVariations(variations) ==
    SortDesc(variations, [i \in 1..Len(variations) |-> Len(variations[i].text)])

\* people_names.sort(key=len, reverse=True)
SortNames(names) == SortDesc(names, [i \in 1..Len(names) |-> Len(names[i])])

\* The entities create_rich_text_with_entity_links collects: people first, then projects
CollectEntities(ok_people, ok_projects) ==
    (IF env.people_db_id THEN EntitiesOf(get_all_people_names(ok_people), "person") ELSE <<>>)
    \o (IF env.projects_db_id
          THEN EntitiesOf(get_all_project_names(ok_projects), "project") ELSE <<>>)

\* return [{"type": "text", "text": {"content": text}}]
ReturnPlain ==
    /\ rich_text_parts' = <<PlainPart(text)>>
    /\ lpc' = "done"
    /\ UNCHANGED <<all_variations, remaining_text, earliest_match>>

\* Enter the while loop with the sorted variations; an empty text never enters it
\* and the empty list of parts is returned
EnterLoop(variations) ==
    /\ all_variations' = variations
    /\ remaining_text' = text
    /\ rich_text_parts' = <<>>
    /\ lpc' = IF text = <<>> THEN "done" ELSE "loop"
    /\ UNCHANGED earliest_match

\* create_rich_text_with_entity_links up to its while loop.  ok_people, ok_projects:
\* whether the two listing queries succeed.
EntityLinkStart ==
    /\ fn = "entity" /\ lpc = "start"
    /\ \E ok_people \in BOOLEAN, ok_projects \in BOOLEAN :
         IF ~env.notion_token THEN ReturnPlain
         ELSE LET entities == CollectEntities(ok_people, ok_projects)
              IN  IF entities = <<>> THEN ReturnPlain
                  ELSE EnterLoop(SortVariations(VariationsOf(entities)))
    /\ UNCHANGED <<storeVars, dirVars, findVars, resVars, conVars, extVars, meetVars, env, fn, text>>

\* create_rich_text_with_people_links up to its while loop.  The sorted names are kept
\* as variations whose entity is the person of that name.
PeopleLinkStart ==
    /\ fn = "people" /\ lpc = "start"
    /\ \E ok_people \in BOOLEAN :
         IF ~env.notion_token \/ ~env.people_db_id THEN ReturnPlain
         ELSE LET people_names == get_all_people_names(ok_people)
              IN  IF people_names = <<>> THEN ReturnPlain
                  ELSE LET sorted == SortNames(people_names)
                       IN  EnterLoop([i \in 1..Len(sorted) |->
                                        [text |-> sorted[i],
                                         entity |-> [name |-> sorted[i], type |-> "person"]]])
    /\ UNCHANGED <<storeVars, dirVars, findVars, resVars, conVars, extVars, meetVars, env, fn, text>>

\* The link of the matched entity.  ok: whether the look-up query succeeds.
EntityLink(entity, ok) ==
    IF entity.type = "person" THEN get_person_link(entity.name, ok)
    ELSE get_project_link(entity.name, ok)

\* The last iteration matched the empty string at offset 0: it consumed nothing, so
\* remaining_text and all_variations are what they were and every later iteration
\* repeats it, appending one more empty part.  The call is followed no further.
Stalled == earliest_match.some /\ earliest_match.end = 0

\* One iteration of the while loop of either function (the two loops are the same
\* code; the people loop looks every match up as a person): the parts of the earliest
\* match and the advance past it, or the rest of the text as the last part.
LinkLoop ==
    /\ lpc = "loop"
    /\ ~Stalled
    /\ LET match == EarliestMatch(all_variations, remaining_text)
       IN  /\ earliest_match' = match
           /\ IF match.some
                THEN \E ok \in BOOLEAN :
                       /\ rich_text_parts' = rich_text_parts
                              \o MatchParts(remaining_text, match, EntityLink(match.entity, ok))
                       /\ remaining_text' = Advance(remaining_text, match)
                       /\ lpc' = IF Advance(remaining_text, match) = <<>> THEN "done" ELSE "loop"
                ELSE /\ rich_text_parts' = rich_text_parts \o <<PlainPart(remaining_text)>>
                     /\ lpc' = "done"
                     /\ UNCHANGED remaining_text
    /\ UNCHANGED <<storeVars, dirVars, findVars, resVars, conVars, extVars, meetVars, env, fn, text,
                   all_variations>>

\* ------------------------------------------------------- inputs of the linker
\* The pieces texts are built of: letters in both cases and the words of the
\* variation templates
Pieces == {<<"a">>, <<"A">>, <<"b">>, <<"a", "b">>, ProjectSuffix, ThePrefix}

RECURSIVE TextsOf(_)
\* The texts of at most n pieces
TextsOf(n) ==
    IF n = 0 THEN {<<>>}
    ELSE LET shorter == TextsOf(n - 1)
         IN  shorter \cup {t \o p : t \in shorter, p \in Pieces}

RECURSIVE SeqsUpTo(_, _)
\* The sequences of at most n elements of S
SeqsUpTo(S, n) ==
    IF n = 0 THEN {<<>>}
    ELSE LET shorter == SeqsUpTo(S, n - 1)
         IN  shorter \cup {Append(q, x) : q \in shorter, x \in S}

\* The names of people and of projects in the store; a name may be the empty string
PersonNames == {<<>>, <<"a">>}
ProjectNames == {<<"b">>, <<"a", "b">>}
\* The names of the people a PeopleManager lists and creates
DirectoryNames == {<<"a">>, <<"b">>}

\* The records of a database with these titles: ids are per database and distinct
RecordsOf(kind, titles) ==
    [i \in 1..Len(titles) |-> [id |-> <<kind, i>>, title |-> <<titles[i]>>]]

\* Which variables are set.  Without NOTION_TOKEN the two database ids are never read,
\* so they are varied only with the token set.
Envs == {e \in [notion_token : BOOLEAN, people_db_id : BOOLEAN, projects_db_id : BOOLEAN] :
           e.notion_token \/ (e.people_db_id /\ e.projects_db_id)}


\* ------------------------------------------------------------ PeopleManager
NoCache == [none |-> TRUE]
Cached(list) == [list |-> list]
NoCursor == 0

\* The store's answer to a database query.  A cursor is the number of records listed
\* before it; the store gives a next cursor exactly when it has more records.
QueryPage(db, cursor) ==
    LET last == Min({cursor + PageSize, Len(db)})
    IN  [results     |-> SubSeq(db, cursor + 1, last),
         has_more    |-> last < Len(db),
         next_cursor |-> IF last < Len(db) THEN last ELSE NoCursor]

\* Mutant: the cursor is never sent, every request asks for the first page
RequestedPageNoCursor(db, cursor) == QueryPage(db, NoCursor)

\* The page a loop iteration of get_all_people asks for: the query carries start_cursor
\* only if one is set
RequestedPage(db, cursor) ==
    IF cursor # NoCursor THEN QueryPage(db, cursor) ELSE QueryPage(db, NoCursor)

\* The record the store makes for a created person; it is listed after the others
NewPerson(db, name) == [id |-> <<"person", Len(db) + 1>>, title |-> <<name>>]

\* The people created before the next get_all_people returns
CreatedSoFar ==
    IF outcome \in {"cached", "loaded", "failed"} THEN {} ELSE created_since

\* get_all_people(force_refresh) up to its first request: the cached list is returned,
\* or a load begins
GetAllPeople ==
    /\ dpc = "idle"
    /\ \E force_refresh \in BOOLEAN :
         IF people_cache = NoCache \/ force_refresh
           THEN /\ all_people' = <<>>
                /\ has_more' = TRUE
                /\ start_cursor' = NoCursor
                /\ dpc' = "load"
                /\ outcome' = "pending"
                /\ UNCHANGED <<people_cache, ret>>
           ELSE /\ ret' = people_cache.list
                /\ outcome' = "cached"
                /\ UNCHANGED <<people_cache, dpc, all_people, has_more, start_cursor>>
    /\ created_since' = CreatedSoFar
    /\ UNCHANGED <<storeVars, linkVars, findVars, resVars, conVars, extVars, meetVars>>

\* The cache after the loop of a load has ended without an error
CacheAfterLoad(collected) == Cached(collected)

\* One iteration of the while has_more loop whose request succeeds; after the last
\* page the collected list becomes the cache and is returned
FetchPage ==
    /\ dpc = "load" /\ has_more
    /\ LET result    == RequestedPage(store_people, start_cursor)
           collected == all_people \o result.results
       IN  /\ all_people' = collected
           /\ has_more' = result.has_more
           /\ start_cursor' = result.next_cursor
           /\ IF result.has_more
                THEN UNCHANGED <<people_cache, dpc, ret, outcome>>
                ELSE /\ people_cache' = CacheAfterLoad(collected)
                     /\ ret' = CacheAfterLoad(collected).list
                     /\ dpc' = "idle"
                     /\ outcome' = "loaded"
    /\ UNCHANGED <<storeVars, linkVars, findVars, resVars, conVars, extVars, meetVars, created_since>>

\* Mutant: the empty list a failed load returns is stored
CacheAfterFailureEmpty(cache, collected) == Cached(<<>>)

\* Mutant: the records collected before the failure are stored
CacheAfterFailurePartial(cache, collected) == Cached(collected)

\* The cache after a request of a load has failed: it is not assigned
CacheAfterFailure(cache, collected) == cache

\* An iteration whose request raises: the error is printed and [] is returned
FetchFails ==
    /\ dpc = "load" /\ has_more
    /\ people_cache' = CacheAfterFailure(people_cache, all_people)
    /\ ret' = <<>>
    /\ dpc' = "idle"
    /\ outcome' = "failed"
    /\ UNCHANGED <<storeVars, linkVars, findVars, resVars, conVars, extVars, meetVars, all_people, has_more,
                   start_cursor, created_since>>

\* The cache after the store has accepted a create request
CacheAfterCreate(cache) == NoCache

\* create_person(name), accepted by the store: the record is returned and the cache
\* is dropped
CreatePerson ==
    /\ dpc = "idle"
    /\ Len(store_people) < MaxDirectory
    /\ \E name \in DirectoryNames :
         LET person == NewPerson(store_people, name)
         IN  /\ store_people' = Append(store_people, person)
             /\ ret' = person
             /\ created_since' = CreatedSoFar \cup {person.id}
    /\ people_cache' = CacheAfterCreate(people_cache)
    /\ outcome' = "created"
    /\ UNCHANGED <<store_projects, linkVars, findVars, resVars, conVars, extVars, meetVars, dpc, all_people,
                   has_more, start_cursor>>

\* Mutant: a rejected create request drops the cache as an accepted one does
CacheAfterCreateFailsDropped(cache) == NoCache

\* The cache after the store has rejected a create request: it is not assigned
CacheAfterCreateFails(cache) == cache

\* create_person(name), rejected by the store: None is returned
CreatePersonFails ==
    /\ dpc = "idle"
    /\ ret' = NoRecord
    /\ outcome' = "create_failed"
    /\ created_since' = CreatedSoFar
    /\ people_cache' = CacheAfterCreateFails(people_cache)
    /\ UNCHANGED <<storeVars, linkVars, findVars, resVars, conVars, extVars, meetVars, dpc, all_people,
                   has_more, start_cursor>>

\* --------------------------------------------- PeopleManager, call by call
MaxRequests == 2    \* a load is made to fail at one of its first MaxRequests requests
MaxStored == 2      \* records the People database holds before a resolution begins
MaxCandidates == 2  \* names extract_person_names gives one resolution

RECURSIVE LoadPages(_, _, _, _, _)
\* The while has_more loop of get_all_people from its k-th request on.  The request
\* numbered fail_at raises (none does if fail_at is 0 or the loop ends earlier).
LoadPages(db, cursor, collected, k, fail_at) ==
    IF k = fail_at THEN [ok |-> FALSE, list |-> collected]
    ELSE LET result == RequestedPage(db, cursor)
             so_far == collected \o result.results
         IN  IF result.has_more
               THEN LoadPages(db, result.next_cursor, so_far, k + 1, fail_at)
               ELSE [ok |-> TRUE, list |-> so_far]

\* One whole call of get_all_people(force_refresh): the cache it leaves and the list
\* it returns
get_all_people(cache, db, force_refresh, fail_at) ==
    IF cache = NoCache \/ force_refresh
      THEN LET load == LoadPages(db, NoCursor, <<>>, 1, fail_at)
           IN  IF load.ok
                 THEN [cache |-> CacheAfterLoad(load.list),
                       list  |-> CacheAfterLoad(load.list).list]
                 ELSE [cache |-> CacheAfterFailure(cache, load.list), list |-> <<>>]
      ELSE [cache |-> cache, list |-> cache.list]

\* The thresholds a caller passes, as fractions; 0.8 is the default
DefaultThreshold == [n |-> 4, d |-> 5]
Thresholds == {[n |-> 0, d |-> 1], [n |-> 1, d |-> 2], DefaultThreshold, [n |-> 1, d |-> 1]}

\* score >= threshold
ScoreGE(s, t) == s.n * t.d >= t.n * s.d

\* SequenceMatcher(None, name.lower(), person_name.lower()).ratio() for a titled record
ScoreOf(name, person) == Ratio(LowerStr(name), LowerStr(person.title[1]))

\* Mutant: a record that equals the best score replaces the best match
ImprovesOrTies(score, best_score, t) == ~ScoreGT(best_score, score) /\ ScoreGE(score, t)

\* Mutant: every record that reaches the threshold replaces the best match
ImprovesAlways(score, best_score, t) == ScoreGE(score, t)

\* score > best_score and score >= threshold
Improves(score, best_score, t) == ScoreGT(score, best_score) /\ ScoreGE(score, t)

RECURSIVE FindBestUntilUntitled(_, _, _, _, _, _)
\* Mutant: the loop ends at the first record without a title
FindBestUntilUntitled(listing, k, name, t, best_match, best_score) ==
    IF k > Len(listing) THEN best_match
    ELSE IF listing[k].title = <<>>
         THEN best_match
         ELSE LET score == ScoreOf(name, listing[k])
              IN  IF Improves(score, best_score, t)
                    THEN FindBestUntilUntitled(listing, k + 1, name, t, listing[k], score)
                    ELSE FindBestUntilUntitled(listing, k + 1, name, t, best_match, best_score)

RECURSIVE FindBest(_, _, _, _, _, _)
\* The for person in people loop of find_matching_person from record k on
FindBest(listing, k, name, t, best_match, best_score) ==
    IF k > Len(listing) THEN best_match
    ELSE IF listing[k].title = <<>>
         THEN FindBest(listing, k + 1, name, t, best_match, best_score)
         ELSE LET score == ScoreOf(name, listing[k])
              IN  IF Improves(score, best_score, t)
                    THEN FindBest(listing, k + 1, name, t, listing[k], score)
                    ELSE FindBest(listing, k + 1, name, t, best_match, best_score)

\* One whole call of find_matching_person(name, threshold): the cache it leaves, the
\* list it searched and the record it returns
find_matching_person(cache, db, name, t, fail_at) ==
    LET got == get_all_people(cache, db, FALSE, fail_at)
    IN  [cache      |-> got.cache,
         people     |-> got.list,
         best_match |-> FindBest(got.list, 1, name, t, NoRecord, ZeroScore)]

\* One whole call of create_person(name); ok: the store accepted the request
create_person(cache, db, name, ok) ==
    IF ok THEN [store  |-> Append(db, NewPerson(db, name)),
                cache  |-> CacheAfterCreate(cache),
                person |-> NewPerson(db, name)]
          ELSE [store  |-> db,
                cache  |-> CacheAfterCreateFails(cache),
                person |-> NoRecord]

\* Mutant: a name that matched nothing is created whatever create_missing says
WantsCreateAlways(existing_person, missing) == existing_person = NoRecord

\* Whether a loop iteration of resolve_people_in_text calls create_person
WantsCreate(existing_person, missing) == existing_person = NoRecord /\ missing

\* Mutant: a name whose creation failed is appended to neither list
ClassifyDropsFailed(name, existing_person, missing, new_person) ==
    IF existing_person # NoRecord THEN [resolved |-> <<existing_person>>, unresolved |-> <<>>]
    ELSE IF missing
           THEN IF new_person # NoRecord
                  THEN [resolved |-> <<new_person>>, unresolved |-> <<>>]
                  ELSE [resolved |-> <<>>, unresolved |-> <<>>]
           ELSE [resolved |-> <<>>, unresolved |-> <<name>>]

\* Mutant: what create_person returned is appended to resolved unchecked
ClassifyKeepsNone(name, existing_person, missing, new_person) ==
    IF existing_person # NoRecord THEN [resolved |-> <<existing_person>>, unresolved |-> <<>>]
    ELSE IF missing
           THEN [resolved |-> <<new_person>>, unresolved |-> <<>>]
           ELSE [resolved |-> <<>>, unresolved |-> <<name>>]

\* The if / elif / else of a loop iteration of resolve_people_in_text: what it appends
\* to resolved_people and to unresolved_names
Classify(name, existing_person, missing, new_person) ==
    IF existing_person # NoRecord THEN [resolved |-> <<existing_person>>, unresolved |-> <<>>]
    ELSE IF missing
           THEN IF new_person # NoRecord
                  THEN [resolved |-> <<new_person>>, unresolved |-> <<>>]
                  ELSE [resolved |-> <<>>, unresolved |-> <<name>>]
           ELSE [resolved |-> <<>>, unresolved |-> <<name>>]

RECURSIVE ResolveRun(_, _, _, _, _, _, _)
\* One whole call of resolve_people_in_text from the k-th name of potential_names on,
\* no request failing: the two lists it returns and the store it leaves
ResolveRun(names, k, cache, db, missing, resolved, unresolved) ==
    IF k > Len(names) THEN [resolved |-> resolved, unresolved |-> unresolved, store |-> db]
    ELSE LET found == find_matching_person(cache, db, names[k], DefaultThreshold, 0)
             wants == WantsCreate(found.best_match, missing)
             made  == IF wants THEN create_person(found.cache, db, names[k], TRUE)
                      ELSE [store |-> db, cache |-> found.cache, person |-> NoRecord]
             lists == Classify(names[k], found.best_match, missing, made.person)
         IN  ResolveRun(names, k + 1, made.cache, made.store, missing,
                        resolved \o lists.resolved, unresolved \o lists.unresolved)

\* The names a caller looks up, the titles the store holds before a resolution, and
\* the names an extraction gives (each begins with a capital and has two characters
\* or more, as _is_likely_person_name demands)
FindNames == {<<"A", "b">>, <<"b">>}
StoredTitles == {<<"a", "b">>, <<"A", "B">>, <<"a", "b", "b">>, <<"c">>}
CandidateNames == {<<"A", "b">>, <<"A", "B">>, <<"B", "a">>}

\* The title arrays of the records the store holds before a resolution: one string,
\* or none for a record without a name
StoredTitleArrays == {<<t>> : t \in StoredTitles} \cup {<<>>}

\* The People records of a sequence of title arrays, in listing order
PeopleWith(arrays) ==
    [i \in 1..Len(arrays) |-> [id |-> <<"person", i>>, title |-> arrays[i]]]

\* list(potential_names) of a set of names: its elements once each, in any order
CandidateLists ==
    {c \in SeqsUpTo(CandidateNames, MaxCandidates) :
        \A i, j \in 1..Len(c) : i # j => c[i] # c[j]}

\* No find_matching_person call has been made
FindIdle ==
    /\ find_name = <<>>
    /\ find_threshold = DefaultThreshold
    /\ find_people = <<>>
    /\ find_result = NoRecord

\* No resolve_people_in_text call has been made
ResolveIdle ==
    /\ rpc = "idle"
    /\ potential_names = <<>>
    /\ create_missing = TRUE
    /\ name_idx = 1
    /\ resolved_people = <<>>
    /\ unresolved_names = <<>>
    /\ create_log = <<>>

NoResponse == [none |-> TRUE]

\* No request is under way
WireIdle ==
    /\ page_in_flight = NoResponse
    /\ cpc = "idle"
    /\ person_in_flight = NoRecord
    /\ overlapped = FALSE
    /\ raced = {}

\* find_matching_person(name, threshold) called by itself
FindMatchingPerson ==
    /\ rpc = "idle"
    /\ \E name \in FindNames, t \in Thresholds, fail_at \in 0..MaxRequests :
         LET found == find_matching_person(people_cache, store_people, name, t, fail_at)
         IN  /\ people_cache' = found.cache
             /\ find_name' = name
             /\ find_threshold' = t
             /\ find_people' = found.people
             /\ find_result' = found.best_match
    /\ UNCHANGED <<storeVars, linkVars, resVars, conVars, extVars, meetVars, dpc, all_people, has_more,
                   start_cursor, ret, outcome, created_since>>

\* resolve_people_in_text(text, create_missing) up to its loop; names: what
\* extract_person_names(text) returns
ResolvePeopleInText ==
    /\ rpc = "idle"
    /\ \E names \in CandidateLists, missing \in BOOLEAN :
         /\ potential_names' = names
         /\ create_missing' = missing
         /\ rpc' = IF names = <<>> THEN "done" ELSE "find"
    /\ name_idx' = 1
    /\ resolved_people' = <<>>
    /\ unresolved_names' = <<>>
    /\ create_log' = <<>>
    /\ UNCHANGED <<storeVars, linkVars, dirVars, findVars, conVars, extVars, meetVars>>

\* A loop iteration up to the return of find_matching_person(name)
ResolveFind ==
    /\ rpc = "find"
    /\ \E fail_at \in 0..MaxRequests :
         LET found == find_matching_person(people_cache, store_people,
                                           potential_names[name_idx], DefaultThreshold,
                                           fail_at)
         IN  /\ people_cache' = found.cache
             /\ find_name' = potential_names[name_idx]
             /\ find_threshold' = DefaultThreshold
             /\ find_people' = found.people
             /\ find_result' = found.best_match
    /\ rpc' = "classify"
    /\ UNCHANGED <<storeVars, linkVars, conVars, extVars, meetVars, dpc, all_people, has_more, start_cursor,
                   ret, outcome, created_since, potential_names, create_missing,
                   name_idx, resolved_people, unresolved_names, create_log>>

\* The rest of the iteration: the name is created if it is to be, and is appended to
\* one of the lists; after the last name the two lists are returned
ResolveClassify ==
    /\ rpc = "classify"
    /\ \E ok \in BOOLEAN :
         LET name   == potential_names[name_idx]
             wants  == WantsCreate(find_result, create_missing)
             made   == IF wants THEN create_person(people_cache, store_people, name, ok)
                       ELSE [store |-> store_people, cache |-> people_cache,
                             person |-> NoRecord]
             lists  == Classify(name, find_result, create_missing, made.person)
         IN  /\ store_people' = made.store
             /\ people_cache' = made.cache
             /\ resolved_people' = resolved_people \o lists.resolved
             /\ unresolved_names' = unresolved_names \o lists.unresolved
             /\ create_log' = IF wants THEN Append(create_log, [name |-> name, ok |-> ok])
                              ELSE create_log
    /\ name_idx' = name_idx + 1
    /\ rpc' = IF name_idx < Len(potential_names) THEN "find" ELSE "done"
    /\ UNCHANGED <<store_projects, linkVars, findVars, conVars, extVars, meetVars, dpc, all_people, has_more,
                   start_cursor, ret, outcome, created_since, potential_names,
                   create_missing>>

\* ------------------------------------- two callers of one PeopleManager
\* The request of a loop iteration of get_all_people reaches the store, which answers
\* with the page as it is now
SendPageRequest ==
    /\ dpc = "load" /\ has_more
    /\ page_in_flight = NoResponse
    /\ page_in_flight' = RequestedPage(store_people, start_cursor)
    /\ UNCHANGED <<storeVars, linkVars, dirVars, findVars, resVars, extVars, meetVars, cpc, person_in_flight,
                   overlapped, raced>>

\* The answer reaches get_all_people: the rest of the iteration and, after the last
\* page, the assignment of the cache and the return
ReceivePage ==
    /\ dpc = "load"
    /\ page_in_flight # NoResponse
    /\ LET result    == page_in_flight
           collected == all_people \o result.results
       IN  /\ all_people' = collected
           /\ has_more' = result.has_more
           /\ start_cursor' = result.next_cursor
           /\ IF result.has_more
                THEN UNCHANGED <<people_cache, dpc, ret, outcome, overlapped>>
                ELSE /\ people_cache' = CacheAfterLoad(collected)
                     /\ ret' = CacheAfterLoad(collected).list
                     /\ dpc' = "idle"
                     /\ outcome' = "loaded"
                     /\ overlapped' = FALSE
    /\ page_in_flight' = NoResponse
    /\ UNCHANGED <<storeVars, linkVars, findVars, resVars, extVars, meetVars, created_since, cpc,
                   person_in_flight, raced>>

\* The request of the other caller's create_person(name) reaches the store, which
\* makes the record
SendCreateRequest ==
    /\ cpc = "idle"
    /\ Len(store_people) < MaxDirectory
    /\ \E name \in DirectoryNames :
         LET person == NewPerson(store_people, name)
         IN  /\ store_people' = Append(store_people, person)
             /\ person_in_flight' = person
    /\ cpc' = "posted"
    /\ overlapped' = (dpc = "load")
    /\ UNCHANGED <<store_projects, linkVars, dirVars, findVars, resVars, extVars, meetVars, page_in_flight,
                   raced>>

\* The answer reaches create_person: the cache is dropped and the record returned
ReceiveCreated ==
    /\ cpc = "posted"
    /\ people_cache' = CacheAfterCreate(people_cache)
    /\ cpc' = "idle"
    /\ person_in_flight' = NoRecord
    /\ raced' = IF overlapped /\ dpc = "load" THEN raced \cup {person_in_flight.id}
                ELSE raced
    /\ overlapped' = FALSE
    /\ UNCHANGED <<storeVars, linkVars, findVars, resVars, extVars, meetVars, page_in_flight, dpc,
                   all_people, has_more, start_cursor, ret, outcome, created_since>>

\* ------------------------------------------------- extract_person_names
MaxTokens == 4      \* a text given to extract_person_names is at most this many pieces
MinNameLen == 2     \* len(name) < 2 is rejected
MaxNameLen == 50    \* len(name) > 50 is rejected
MaxWords == 3       \* len(name.split()) <= 3

\* [A-Z], [a-z]; \s and the characters str.strip() removes, of those a text here has
UpperAlphabet ==
    <<"A", "B", "C", "D", "E", "F", "G", "H", "I", "J", "K", "L", "M", "N", "O", "P",
      "Q", "R", "S", "T", "U", "V", "W", "X", "Y", "Z">>
LowerAlphabet ==
    <<"a", "b", "c", "d", "e", "f", "g", "h", "i", "j", "k", "l", "m", "n", "o", "p",
      "q", "r", "s", "t", "u", "v", "w", "x", "y", "z">>
UpperLetters == {UpperAlphabet[i] : i \in 1..Len(UpperAlphabet)}
LowerLetters == {LowerAlphabet[i] : i \in 1..Len(LowerAlphabet)}
Letters == UpperLetters \cup LowerLetters
Whitespace == {" ", "\t", "\n"}

\* [^.!?\n] is every character but these
Terminators == {".", "!", "?", "\n"}
\* [,;&]
Separators == {",", ";", "&"}

\* non_names of _is_likely_person_name
NonNames ==
    {<<"T", "e", "a", "m">>, <<"M", "e", "e", "t", "i", "n", "g">>,
     <<"C", "a", "l", "l">>, <<"D", "i", "s", "c", "u", "s", "s", "i", "o", "n">>,
     <<"R", "e", "v", "i", "e", "w">>, <<"U", "p", "d", "a", "t", "e">>,
     <<"M", "o", "n", "d", "a", "y">>, <<"T", "u", "e", "s", "d", "a", "y">>,
     <<"W", "e", "d", "n", "e", "s", "d", "a", "y">>,
     <<"T", "h", "u", "r", "s", "d", "a", "y">>, <<"F", "r", "i", "d", "a", "y">>,
     <<"S", "a", "t", "u", "r", "d", "a", "y">>, <<"S", "u", "n", "d", "a", "y">>,
     <<"J", "a", "n", "u", "a", "r", "y">>, <<"F", "e", "b", "r", "u", "a", "r", "y">>,
     <<"M", "a", "r", "c", "h">>, <<"A", "p", "r", "i", "l">>, <<"M", "a", "y">>,
     <<"J", "u", "n", "e">>, <<"J", "u", "l", "y">>, <<"A", "u", "g", "u", "s", "t">>,
     <<"S", "e", "p", "t", "e", "m", "b", "e", "r">>,
     <<"O", "c", "t", "o", "b", "e", "r">>, <<"N", "o", "v", "e", "m", "b", "e", "r">>,
     <<"D", "e", "c", "e", "m", "b", "e", "r">>, <<"A", "M">>, <<"P", "M">>,
     <<"E", "S", "T">>, <<"P", "S", "T">>, <<"U", "T", "C">>, <<"G", "M", "T">>}

\* attendees?|participants?|people, lower case
ListMarkers ==
    {<<"a", "t", "t", "e", "n", "d", "e", "e">>, <<"a", "t", "t", "e", "n", "d", "e", "e", "s">>,
     <<"p", "a", "r", "t", "i", "c", "i", "p", "a", "n", "t">>,
     <<"p", "a", "r", "t", "i", "c", "i", "p", "a", "n", "t", "s">>,
     <<"p", "e", "o", "p", "l", "e">>}

\* The index after the longest run of characters of class that starts at index i
RunEnd(s, i, class) ==
    Max({j \in i..(Len(s) + 1) : \A k \in i..(j - 1) : s[k] \in class})

\* The index of the first character of class at or after index i, Len(s) + 1 for none
NextOf(s, i, class) ==
    Min({j \in i..(Len(s) + 1) : j = Len(s) + 1 \/ s[j] \in class})

\* str.strip()
Strip(s) ==
    LET kept == {i \in 1..Len(s) : s[i] \notin Whitespace}
    IN  IF kept = {} THEN <<>> ELSE SubSeq(s, Min(kept), Max(kept))

\* len(name.split()): the number of runs of characters that are not whitespace
WordCount(s) ==
    Cardinality({i \in 1..Len(s) :
                   s[i] \notin Whitespace /\ (i = 1 \/ s[i - 1] \in Whitespace)})

RECURSIVE SplitLines(_)
\* text.split('\n')
SplitLines(s) ==
    LET nl == NextOf(s, 1, {"\n"})
    IN  IF nl > Len(s) THEN <<s>>
        ELSE <<SubSeq(s, 1, nl - 1)>> \o SplitLines(SubSeq(s, nl + 1, Len(s)))

RECURSIVE SplitNames(_)
\* re.split(r'[,;&]+', name_text): the pieces between the runs of separators
SplitNames(s) ==
    LET sep == NextOf(s, 1, Separators)
    IN  IF sep > Len(s) THEN <<s>>
        ELSE <<SubSeq(s, 1, sep - 1)>>
             \o SplitNames(SubSeq(s, RunEnd(s, sep, Separators), Len(s)))

\* _is_likely_person_name(name)
IsLikelyPersonName(name) ==
    /\ Len(name) >= MinNameLen /\ Len(name) <= MaxNameLen
    /\ name[1] \in UpperLetters
    /\ name \notin NonNames
    /\ \A i \in 1..Len(name) : name[i] \in Letters \cup Whitespace \cup {"-", "'"}

NoLabel == [some |-> FALSE]

\* A match of ([A-Z][a-z]+(?:\s+[A-Z][a-z]+)?):\s that begins at index i of s: its
\* group and the index after it.  With ignore_case both letter classes are every
\* letter.  Every repetition is greedy and no shorter one lets the rest match, so
\* the match is with the second word if the label ends after it and with the first
\* word alone if the label ends after that.
SpeakerAt(s, i, ignore_case) ==
    LET first   == IF ignore_case THEN Letters ELSE UpperLetters
        rest    == IF ignore_case THEN Letters ELSE LowerLetters
        Word(j) == IF j <= Len(s) /\ s[j] \in first /\ RunEnd(s, j + 1, rest) > j + 1
                     THEN RunEnd(s, j + 1, rest) ELSE 0
        Ends(e) == e + 1 <= Len(s) /\ s[e] = ":" /\ s[e + 1] \in Whitespace
        w1      == Word(i)
        gap     == IF w1 > 0 THEN RunEnd(s, w1, Whitespace) ELSE 0
        w2      == IF w1 > 0 /\ gap > w1 THEN Word(gap) ELSE 0
    IN  IF w2 > 0 /\ Ends(w2) THEN [some |-> TRUE, name |-> SubSeq(s, i, w2 - 1), end |-> w2 + 2]
        ELSE IF w1 > 0 /\ Ends(w1)
               THEN [some |-> TRUE, name |-> SubSeq(s, i, w1 - 1), end |-> w1 + 2]
               ELSE NoLabel

\* The names the first loop adds for one line: the label of the stripped line
LineNames(line) ==
    LET label == SpeakerAt(Strip(line), 1, FALSE)
    IN  IF label.some /\ IsLikelyPersonName(Strip(label.name))
          THEN {Strip(label.name)} ELSE {}

\* The names the second loop adds for one match: group(1) is stripped and split, and
\* the pieces that pass the filter and have three words or fewer are added
GroupNames(name_text) ==
    LET names == SplitNames(Strip(name_text))
    IN  {Strip(names[k]) : k \in {k \in 1..Len(names) :
             IsLikelyPersonName(Strip(names[k])) /\ WordCount(Strip(names[k])) <= MaxWords}}

\* re.IGNORECASE for the letters
CaseFold(c) ==
    IF c \in UpperLetters
      THEN LowerAlphabet[CHOOSE i \in 1..Len(UpperAlphabet) : UpperAlphabet[i] = c]
      ELSE c

\* The index after a list marker and its colon that begin at index i, 0 for none
MarkerAt(s, i) ==
    LET ends == {i + Len(m) + 1 : m \in {m \in ListMarkers :
                    /\ i + Len(m) <= Len(s)
                    /\ [k \in 1..Len(m) |-> CaseFold(s[i + k - 1])] = m
                    /\ s[i + Len(m)] = ":"}}
    IN  IF ends = {} THEN 0 ELSE Min(ends)

RECURSIVE ListNames(_, _)
\* re.finditer of (?:attendees?|participants?|people):\s*([^.!?\n]+) from index from
\* on: the leftmost marker, the whitespace after it, and as group the characters up
\* to the next terminator; the search goes on after the group.  If no character
\* follows the whitespace the group is whitespace or there is no match, and no name
\* comes of it.
ListNames(s, from) ==
    LET starts == {i \in from..Len(s) : MarkerAt(s, i) > 0}
    IN  IF starts = {} THEN {}
        ELSE LET after == MarkerAt(s, Min(starts))
                 begin == RunEnd(s, after, Whitespace)
                 stop  == NextOf(s, begin, Terminators)
             IN  IF stop > begin
                   THEN GroupNames(SubSeq(s, begin, stop - 1)) \cup ListNames(s, stop)
                   ELSE ListNames(s, begin)

RECURSIVE LabelNames(_, _)
\* re.finditer of the speaker pattern with re.IGNORECASE | re.MULTILINE from index
\* from on: the first line start at which it matches; the search goes on after the
\* match
LabelNames(s, from) ==
    LET starts == {i \in from..Len(s) :
                     (i = 1 \/ s[i - 1] = "\n") /\ SpeakerAt(s, i, TRUE).some}
    IN  IF starts = {} THEN {}
        ELSE LET label == SpeakerAt(s, Min(starts), TRUE)
             IN  GroupNames(label.name) \cup LabelNames(s, label.end)

\* extract_person_names(text), as a set
extract_person_names(s) ==
    LET lines == SplitLines(s)
    IN  UNION {LineNames(lines[k]) : k \in 1..Len(lines)}
        \cup ListNames(s, 1) \cup LabelNames(s, 1)

\* The pieces the texts given to extract_person_names are built of
ExtractPieces ==
    {<<"A", "b">>, <<"T", "e", "a", "m">>, <<"p", "e", "o", "p", "l", "e", ":">>,
     <<":", " ">>, <<" ">>, <<"\t">>, <<"\n">>, <<",">>}

RECURSIVE ExtractTexts(_)
\* The texts of at most n pieces
ExtractTexts(n) ==
    IF n = 0 THEN {<<>>}
    ELSE LET shorter == ExtractTexts(n - 1)
         IN  shorter \cup {t \o q : t \in shorter, q \in ExtractPieces}

\* No extract_person_names call is looked at
ExtractIdle ==
    /\ xpc = "done"
    /\ extract_text = <<>>
    /\ extracted = {}

\* extract_person_names(text)
ExtractPersonNames ==
    /\ xpc = "start"
    /\ extracted' = extract_person_names(extract_text)
    /\ xpc' = "done"
    /\ UNCHANGED <<storeVars, linkVars, dirVars, findVars, resVars, conVars, meetVars,
                   extract_text>>

\* ----------------------------- TranscriptProcessor and add_meeting_page
NoRelation == [none |-> TRUE]

\* get_person_ids(people)
get_person_ids(listing) == [i \in 1..Len(listing) |-> listing[i].id]

\* create_people_relation_property(people)
create_people_relation_property(listing) ==
    LET person_ids == get_person_ids(listing)
    IN  [relation |-> [i \in 1..Len(person_ids) |-> [id |-> person_ids[i]]]]

RECURSIVE PeopleList(_)
\* The loop of _get_people_list: name and id of every record that has a title
PeopleList(listing) ==
    IF listing = <<>> THEN <<>>
    ELSE (IF Head(listing).title # <<>>
            THEN <<[name |-> Head(listing).title[1], id |-> Head(listing).id]>> ELSE <<>>)
         \o PeopleList(Tail(listing))

\* No TranscriptProcessor is looked at
MeetingIdle ==
    /\ mpc = "absent"
    /\ tp_people_manager = FALSE
    /\ nm_people_manager = FALSE
    /\ people_list = <<>>
    /\ auto_link_people = TRUE
    /\ link_raised = FALSE
    /\ relation = NoRelation
    /\ page_requests = 0
    /\ page_accepted = FALSE
    /\ meeting_ret = "unset"

\* TranscriptProcessor(notion_token, meetings_db_id, people_db_id, key) with a key.
\* given: people_db_id is passed; schema_ok: the schema request of the constructor's
\* own PeopleManager succeeds; fail_at: the request of _get_people_list that fails.
\* The NotionManager makes a PeopleManager of its own whenever people_db_id is passed,
\* and that one is not tested.  people_cache is the cache of the NotionManager's
\* PeopleManager; the constructor's own manager loads only its own cache.
NewTranscriptProcessor ==
    /\ mpc = "new"
    /\ \E given \in BOOLEAN, schema_ok \in BOOLEAN, fail_at \in 0..MaxRequests :
         /\ nm_people_manager' = given
         /\ tp_people_manager' = (given /\ schema_ok)
         /\ people_list' =
              IF given /\ schema_ok
                THEN PeopleList(get_all_people(NoCache, store_people, FALSE, fail_at).list)
                ELSE <<>>
    /\ mpc' = "idle"
    /\ UNCHANGED <<storeVars, linkVars, dirVars, findVars, resVars, conVars, extVars,
                   auto_link_people, link_raised, relation, page_requests, page_accepted,
                   meeting_ret>>

\* create_meeting_from_transcript(transcript, auto_link_people) up to the people
\* linking of add_meeting_page.  extracted_data: whether process_transcript gave
\* data; names: what extract_person_names gives for the name and text of the meeting.
\* Without data None is returned and add_meeting_page is not called.  With
\* auto_link_people and a PeopleManager in the NotionManager,
\* resolve_people_in_text(full_text) begins, with create_missing at its default.
CreateMeetingFromTranscript ==
    /\ mpc = "idle"
    /\ \E auto \in BOOLEAN, extracted_data \in BOOLEAN, names \in CandidateLists :
         /\ auto_link_people' = auto
         /\ IF ~extracted_data
              THEN /\ meeting_ret' = "none"
                   /\ mpc' = "done"
                   /\ UNCHANGED resVars
              ELSE IF auto /\ nm_people_manager
                     THEN /\ mpc' = "linking"
                          /\ potential_names' = names
                          /\ create_missing' = TRUE
                          /\ rpc' = IF names = <<>> THEN "done" ELSE "find"
                          /\ name_idx' = 1
                          /\ resolved_people' = <<>>
                          /\ unresolved_names' = <<>>
                          /\ create_log' = <<>>
                          /\ UNCHANGED meeting_ret
                     ELSE /\ mpc' = "post"
                          /\ UNCHANGED <<resVars, meeting_ret>>
    /\ UNCHANGED <<storeVars, linkVars, dirVars, findVars, conVars, extVars,
                   tp_people_manager, nm_people_manager, people_list, link_raised,
                   relation, page_requests, page_accepted>>

\* Mutant: an error of the people linking ends the call
PhaseAfterLinkingPropagates(raised) == IF raised THEN "done" ELSE "post"

\* Where add_meeting_page goes on after the try statement of the people linking:
\* except Exception catches the error and the call goes on to the page request
PhaseAfterLinking(raised) == "post"

\* resolve_people_in_text raises within add_meeting_page (a title element without
\* 'text', a response that is no JSON): the rest of the try block is skipped
LinkingRaises ==
    /\ mpc = "linking"
    /\ rpc \in {"find", "classify"}
    /\ rpc' = "raised"
    /\ link_raised' = TRUE
    /\ mpc' = PhaseAfterLinking(TRUE)
    /\ UNCHANGED <<storeVars, linkVars, dirVars, findVars, conVars, extVars,
                   potential_names, create_missing, name_idx, resolved_people,
                   unresolved_names, create_log, tp_people_manager, nm_people_manager,
                   people_list, auto_link_people, relation, page_requests, page_accepted,
                   meeting_ret>>

\* The rest of the try block after resolve_people_in_text returned.  has_relation:
\* the schema of the meetings database was read and has a relation to the People
\* database; raises: the line that prints the linked names raises, which it can only
\* after the relation was assigned.
LinkPeople ==
    /\ mpc = "linking"
    /\ rpc = "done"
    /\ \E has_relation \in BOOLEAN, raises \in BOOLEAN :
         LET linked == resolved_people # <<>> /\ has_relation
         IN  /\ relation' = IF linked THEN create_people_relation_property(resolved_people)
                            ELSE NoRelation
             /\ link_raised' = (linked /\ raises)
             /\ mpc' = PhaseAfterLinking(linked /\ raises)
    /\ UNCHANGED <<storeVars, linkVars, dirVars, findVars, resVars, conVars, extVars,
                   tp_people_manager, nm_people_manager, people_list, auto_link_people,
                   page_requests, page_accepted, meeting_ret>>

\* The page request of add_meeting_page and the two returns; ok: the store accepted
\* the request.  create_meeting_from_transcript returns what add_meeting_page returns.
PostMeetingPage ==
    /\ mpc = "post"
    /\ \E ok \in BOOLEAN :
         /\ page_accepted' = ok
         /\ meeting_ret' = IF ok THEN "page" ELSE "empty"
    /\ page_requests' = page_requests + 1
    /\ mpc' = "done"
    /\ UNCHANGED <<storeVars, linkVars, dirVars, findVars, resVars, conVars, extVars,
                   tp_people_manager, nm_people_manager, people_list, auto_link_people,
                   link_raised, relation>>

DirInit ==
    /\ store_people \in {RecordsOf("person", t) : t \in SeqsUpTo(DirectoryNames, MaxDirectory)}
    /\ store_projects = <<>>
    /\ people_cache = NoCache
    /\ dpc = "idle"
    /\ all_people = <<>>
    /\ has_more = FALSE
    /\ start_cursor = NoCursor
    /\ ret = <<>>
    /\ outcome = "none"
    /\ created_since = {}
    /\ env = [notion_token |-> TRUE, people_db_id |-> TRUE, projects_db_id |-> FALSE]
    /\ fn = "entity"
    /\ text = <<>>
    /\ lpc = "done"
    /\ all_variations = <<>>
    /\ remaining_text = <<>>
    /\ earliest_match = NoMatch
    /\ rich_text_parts = <<>>
    /\ FindIdle /\ ResolveIdle /\ WireIdle /\ ExtractIdle /\ MeetingIdle

DirNext == GetAllPeople \/ FetchPage \/ FetchFails \/ CreatePerson \/ CreatePersonFails

SpecDirectory == DirInit /\ [][DirNext]_vars

LinkInit ==
    /\ store_people \in {RecordsOf("person", t) : t \in SeqsUpTo(PersonNames, MaxPeople)}
    /\ store_projects \in {RecordsOf("project", t) : t \in SeqsUpTo(ProjectNames, MaxProjects)}
    /\ env \in Envs
    /\ fn \in {"entity", "people"}
    /\ text \in TextsOf(MaxPieces)
    /\ lpc = "start"
    /\ all_variations = <<>>
    /\ remaining_text = <<>>
    /\ earliest_match = NoMatch
    /\ rich_text_parts = <<>>
    /\ people_cache = NoCache
    /\ dpc = "idle"
    /\ all_people = <<>>
    /\ has_more = FALSE
    /\ start_cursor = NoCursor
    /\ ret = <<>>
    /\ outcome = "none"
    /\ created_since = {}
    /\ FindIdle /\ ResolveIdle /\ WireIdle /\ ExtractIdle /\ MeetingIdle

LinkNext == EntityLinkStart \/ PeopleLinkStart \/ LinkLoop

\* The names of the people of a database that is longer than one page of results
PagedNames == {<<"a">>, <<"b">>}

\* A linker call on a People database of one record more than a page holds
LinkPagedInit ==
    /\ store_people \in {RecordsOf("person", t) :
                           t \in {q \in SeqsUpTo(PagedNames, PageSize + 1) : Len(q) = PageSize + 1}}
    /\ store_projects \in {RecordsOf("project", t) : t \in SeqsUpTo(ProjectNames, MaxProjects)}
    /\ env \in Envs
    /\ fn \in {"entity", "people"}
    /\ text \in TextsOf(MaxPieces)
    /\ lpc = "start"
    /\ all_variations = <<>>
    /\ remaining_text = <<>>
    /\ earliest_match = NoMatch
    /\ rich_text_parts = <<>>
    /\ people_cache = NoCache
    /\ dpc = "idle"
    /\ all_people = <<>>
    /\ has_more = FALSE
    /\ start_cursor = NoCursor
    /\ ret = <<>>
    /\ outcome = "none"
    /\ created_since = {}
    /\ FindIdle /\ ResolveIdle /\ WireIdle /\ ExtractIdle /\ MeetingIdle

SpecLinkerPaged == LinkPagedInit /\ [][LinkNext]_vars

SpecLinker == LinkInit /\ [][LinkNext]_vars

\* A PeopleManager that has loaded nothing, a store of a few people, no call yet
ResolverInit ==
    /\ store_people \in {PeopleWith(a) : a \in SeqsUpTo(StoredTitleArrays, MaxStored)}
    /\ store_projects = <<>>
    /\ people_cache = NoCache
    /\ dpc = "idle"
    /\ all_people = <<>>
    /\ has_more = FALSE
    /\ start_cursor = NoCursor
    /\ ret = <<>>
    /\ outcome = "none"
    /\ created_since = {}
    /\ env = [notion_token |-> TRUE, people_db_id |-> TRUE, projects_db_id |-> FALSE]
    /\ fn = "entity"
    /\ text = <<>>
    /\ lpc = "done"
    /\ all_variations = <<>>
    /\ remaining_text = <<>>
    /\ earliest_match = NoMatch
    /\ rich_text_parts = <<>>
    /\ FindIdle /\ ResolveIdle /\ WireIdle /\ ExtractIdle /\ MeetingIdle

ResolverNext == FindMatchingPerson \/ ResolvePeopleInText \/ ResolveFind \/ ResolveClassify

SpecResolver == ResolverInit /\ [][ResolverNext]_vars

\* One caller loads the directory while another creates people; no request fails
ConcurrentNext ==
    GetAllPeople \/ SendPageRequest \/ ReceivePage \/ SendCreateRequest \/ ReceiveCreated

SpecConcurrent == DirInit /\ [][ConcurrentNext]_vars

\* A People database of a few records, no TranscriptProcessor yet
MeetingInit ==
    /\ store_people \in {PeopleWith(q) : q \in SeqsUpTo(StoredTitleArrays, MaxPeople)}
    /\ store_projects = <<>>
    /\ people_cache = NoCache
    /\ dpc = "idle"
    /\ all_people = <<>>
    /\ has_more = FALSE
    /\ start_cursor = NoCursor
    /\ ret = <<>>
    /\ outcome = "none"
    /\ created_since = {}
    /\ env = [notion_token |-> TRUE, people_db_id |-> TRUE, projects_db_id |-> FALSE]
    /\ fn = "entity"
    /\ text = <<>>
    /\ lpc = "done"
    /\ all_variations = <<>>
    /\ remaining_text = <<>>
    /\ earliest_match = NoMatch
    /\ rich_text_parts = <<>>
    /\ FindIdle /\ ResolveIdle /\ WireIdle /\ ExtractIdle
    /\ mpc = "new"
    /\ tp_people_manager = FALSE
    /\ nm_people_manager = FALSE
    /\ people_list = <<>>
    /\ auto_link_people = TRUE
    /\ link_raised = FALSE
    /\ relation = NoRelation
    /\ page_requests = 0
    /\ page_accepted = FALSE
    /\ meeting_ret = "unset"

MeetingNext ==
    \/ NewTranscriptProcessor
    \/ CreateMeetingFromTranscript
    \/ ResolveFind
    \/ ResolveClassify
    \/ LinkingRaises
    \/ LinkPeople
    \/ PostMeetingPage

SpecMeeting == MeetingInit /\ [][MeetingNext]_vars

\* A text, not yet looked at
ExtractInit ==
    /\ extract_text \in ExtractTexts(MaxTokens)
    /\ xpc = "start"
    /\ extracted = {}
    /\ store_people = <<>>
    /\ store_projects = <<>>
    /\ people_cache = NoCache
    /\ dpc = "idle"
    /\ all_people = <<>>
    /\ has_more = FALSE
    /\ start_cursor = NoCursor
    /\ ret = <<>>
    /\ outcome = "none"
    /\ created_since = {}
    /\ env = [notion_token |-> TRUE, people_db_id |-> TRUE, projects_db_id |-> FALSE]
    /\ fn = "entity"
    /\ text = <<>>
    /\ lpc = "done"
    /\ all_variations = <<>>
    /\ remaining_text = <<>>
    /\ earliest_match = NoMatch
    /\ rich_text_parts = <<>>
    /\ FindIdle /\ ResolveIdle /\ WireIdle /\ MeetingIdle

ExtractNext == ExtractPersonNames

SpecExtract == ExtractInit /\ [][ExtractNext]_vars

\* =================================================== properties of the linker
\* The content fields of the parts, in order
Contents(parts) == [i \in 1..Len(parts) |-> parts[i].content]
\* The offset in the input at which part i starts: the lengths of the parts before it
PartStart(parts, i) == Len(Concat(Contents(SubSeq(parts, 1, i - 1))))
\* The part a loop iteration that found a match appended last, and the offset in the
\* text that remained before the iteration at which that part starts
EmittedPart == rich_text_parts'[Len(rich_text_parts')]
EmittedStart == Len(remaining_text) - Len(remaining_text') - Len(EmittedPart.content)
\* A loop iteration that chose a match
MatchStep == lpc = "loop" /\ earliest_match'.some
\* Whether variation text v occurs in s at 0-based offset i, compared character by
\* character without regard to case
OccursAt(v, s, i) ==
    /\ i >= 0 /\ i + Len(v) <= Len(s)
    /\ LowerStr(SubSeq(s, i + 1, i + Len(v))) = LowerStr(v)

\* C1: the contents of the returned parts of either function, concatenated in order,
\* are the input text; while the loop runs, the parts built so far followed by the
\* remaining text are the input text.
C1_RoundTrip ==
    /\ lpc = "done" => Concat(Contents(rich_text_parts)) = text
    /\ lpc = "loop" => Concat(Contents(rich_text_parts)) \o remaining_text = text

\* A returned result of three or more parts, one of them linked
C1_Witness ==
    /\ lpc = "done" /\ Len(rich_text_parts) >= 3
    /\ \E i \in 1..Len(rich_text_parts) : "link" \in DOMAIN rich_text_parts[i]

\* C2: the returned parts partition the input: part i is the slice of the text that
\* starts where part i - 1 ended (the first at offset 0), the last part ends at the end
\* of the text, and for a non-empty text every part is non-empty, so the boundaries
\* increase strictly and no character is in two parts.
C2_Partition ==
    lpc = "done" =>
        /\ \A i \in 1..Len(rich_text_parts) :
             LET from == PartStart(rich_text_parts, i)
                 c    == rich_text_parts[i].content
             IN  /\ from + Len(c) <= Len(text)
                 /\ c = SubSeq(text, from + 1, from + Len(c))
                 /\ text # <<>> => c # <<>>
        /\ PartStart(rich_text_parts, Len(rich_text_parts) + 1) = Len(text)

\* A returned result with a plain part between two entity parts
C2_Witness ==
    /\ lpc = "done" /\ fn = "entity" /\ Len(rich_text_parts) >= 3
    /\ "link" \in DOMAIN rich_text_parts[1]
    /\ "link" \notin DOMAIN rich_text_parts[2]
    /\ "link" \in DOMAIN rich_text_parts[3]

\* C3: of the variations whose leftmost match in the remaining text starts at the
\* offset of the emitted entity part, none is longer than the emitted part.
C3_LongestAtTie ==
    [][MatchStep =>
        \A k \in 1..Len(all_variations) :
            Search(all_variations[k].text, remaining_text) = EmittedStart
                => Len(all_variations[k].text) <= Len(EmittedPart.content)]_vars

\* Person "a" and project "ab" both match "ab..." at offset 0 and "ab" was emitted
C3_Witness ==
    /\ earliest_match.some /\ fn = "entity"
    /\ earliest_match.matched_text = <<"a", "b">>
    /\ \E k \in 1..Len(all_variations) : all_variations[k].text = <<"a">>
    /\ rich_text_parts[1].content = <<"a", "b">>

\* C4: the emitted entity part starts at the smallest offset at which any variation
\* matches the remaining text, and a match is emitted whenever some variation matches.
C4_EarliestOffset ==
    [][lpc = "loop" =>
        /\ earliest_match'.some =>
             \A k \in 1..Len(all_variations) :
                LET at == Search(all_variations[k].text, remaining_text)
                IN  at >= 0 => EmittedStart <= at
        /\ (\E k \in 1..Len(all_variations) :
                Search(all_variations[k].text, remaining_text) >= 0
                /\ Search(all_variations[k].text, remaining_text) < Len(remaining_text))
             => earliest_match'.some]_vars

\* A shorter variation was emitted at offset 0 although a longer one, scanned first,
\* matches later in the same text
C4_Witness ==
    /\ earliest_match.some /\ Len(rich_text_parts) = 1
    /\ earliest_match.start = 0
    /\ \E k \in 1..Len(all_variations) :
          /\ Len(all_variations[k].text) > Len(earliest_match.matched_text)
          /\ Search(all_variations[k].text, text) > 0

\* C5: a variation that occurs in the remaining text in any casing is matched, and the
\* emitted entity part is the literal slice of the remaining text at the match offset,
\* equal to a variation up to case.
C5_CasePreserved ==
    [][lpc = "loop" =>
        /\ (\E k \in 1..Len(all_variations) : \E i \in 0..(Len(remaining_text) - 1) :
                OccursAt(all_variations[k].text, remaining_text, i))
             => earliest_match'.some
        /\ earliest_match'.some =>
             /\ EmittedPart.content =
                  SubSeq(remaining_text, EmittedStart + 1,
                         EmittedStart + Len(EmittedPart.content))
             /\ \E k \in 1..Len(all_variations) :
                  LowerStr(all_variations[k].text) = LowerStr(EmittedPart.content)]_vars

\* The name "a" matched the text "A" and the part emitted is "A"
C5_Witness ==
    /\ earliest_match.some
    /\ earliest_match.entity.name = <<"a">>
    /\ earliest_match.matched_text = <<"A">>
    /\ rich_text_parts[Len(rich_text_parts)].content = <<"A">>

\* C6: the cursor loop terminates.  An iteration is a function of remaining_text and
\* all_variations alone, so the loop reaches its terminal condition exactly if every
\* iteration that does not end it leaves a shorter remaining_text.
C6_LoopTerminates ==
    [][(lpc = "loop" /\ lpc' = "loop") => Len(remaining_text') < Len(remaining_text)]_vars

\* C7 (the linker's half): for the empty text and no entities the returned sequence of
\* parts is empty.
C7_EmptyInputEmptyResult ==
    (lpc = "done" /\ text = <<>> /\ all_variations = <<>>) => rich_text_parts = <<>>

\* ============================================ properties of the PeopleManager
\* get_all_people has returned
Returned == outcome \in {"cached", "loaded", "failed"}

\* C8: the first get_all_people to return after create_person succeeded returns a
\* listing that holds every person created since the last one returned.
C8_CreatedPersonListed ==
    Returned => \A id \in created_since : \E i \in 1..Len(ret) : ret[i].id = id

\* C9: a load asks for page after page, each from the cursor the page before gave, so
\* what it has collected is always the listing up to that cursor; when the store
\* reports no more pages the cache and the result are the whole listing, in order.
C9_FullPagedLoad ==
    /\ dpc = "load" =>
         /\ has_more
         /\ Len(all_people) <= Len(store_people)
         /\ all_people = SubSeq(store_people, 1, Len(all_people))
         /\ start_cursor = (IF all_people = <<>> THEN NoCursor ELSE Len(all_people))
    /\ outcome = "loaded" =>
         /\ people_cache = Cached(store_people)
         /\ ret = store_people

\* A load of a listing of more than one page has succeeded
C9_Witness ==
    /\ outcome = "loaded" /\ Len(store_people) > PageSize
    /\ people_cache = Cached(store_people)

\* C10: no step that begins a load, continues it or ends it with a failed request
\* changes the cache.
C10_FailureKeepsCache ==
    [][(dpc' = "load" \/ outcome' = "failed") => people_cache' = people_cache]_vars

\* A forced reload failed on its second page and the listing loaded before is still
\* the cache
C10_Witness ==
    /\ outcome = "failed" /\ all_people # <<>>
    /\ people_cache # NoCache
    /\ people_cache.list # all_people

\* C11: a failed load is reported to the caller of get_all_people as something other
\* than what a successful load of an empty directory returns, the empty list.
C11_FailureDistinguishable ==
    outcome = "failed" => ret # CacheAfterLoad(<<>>).list

\* C18: a create_person call that the store rejects returns None and changes neither
\* the cache nor the store.
C18_RejectedCreateKeepsCache ==
    [][outcome' = "create_failed" =>
        /\ ret' = NoRecord
        /\ people_cache' = people_cache
        /\ store_people' = store_people]_vars

\* A create request was rejected while the cache held a loaded listing of the store,
\* and the cache still holds it
C18_Witness ==
    /\ outcome = "create_failed"
    /\ people_cache = Cached(store_people)
    /\ store_people # <<>>

\* ================================== properties of find_matching_person
\* The positions of the titled records of the list the last call searched
Titled == {i \in 1..Len(find_people) : find_people[i].title # <<>>}
\* The score of the record at position i of that list against the name of the call
ScoreAt(i) == ScoreOf(find_name, find_people[i])
\* The position in that list of the record the call returned
ResultAt == CHOOSE i \in 1..Len(find_people) : find_people[i] = find_result
\* What the same call returns at threshold t
FindAt(t) == FindBest(find_people, 1, find_name, t, NoRecord, ZeroScore)

\* C12: find_matching_person returns a record exactly if the highest score of the
\* records it searched is at or above the threshold, and the record it returns has
\* that highest score.
C12_MaxIffThreshold ==
    /\ find_result # NoRecord <=> \E i \in Titled : ScoreGE(ScoreAt(i), find_threshold)
    /\ find_result # NoRecord =>
         /\ \E i \in Titled : find_people[i] = find_result
         /\ \A j \in Titled : ~ScoreGT(ScoreAt(j), ScoreAt(ResultAt))

\* C13: the record returned is the first, in the order of the list, of those with the
\* highest score: every record before it scores strictly less and none scores more.
C13_FirstOfTies ==
    find_result # NoRecord =>
        \A j \in Titled :
            /\ ~ScoreGT(ScoreAt(j), ScoreAt(ResultAt))
            /\ j < ResultAt => ScoreGT(ScoreAt(ResultAt), ScoreAt(j))

\* The first of two records with the same highest score was returned
C13_Witness ==
    /\ find_result # NoRecord
    /\ ResultAt = 1
    /\ \E j \in Titled : j > 1 /\ ScoreAt(j) = ScoreAt(1) /\ find_people[j] # find_people[1]

\* C14: if the call returned a record, it returns the same record at every lower
\* threshold; if it returned nothing, it returns nothing at every higher threshold.
C14_MonotonicInThreshold ==
    \A t \in Thresholds :
        /\ (find_result # NoRecord /\ ScoreGE(find_threshold, t)) => FindAt(t) = find_result
        /\ (find_result = NoRecord /\ ScoreGE(t, find_threshold)) => FindAt(t) = NoRecord

\* A match at 0.8 that is the same match at 0.5 and no match at 1, among several
\* records that reach 0.5
C14_Witness ==
    /\ find_result # NoRecord
    /\ find_threshold = DefaultThreshold
    /\ FindAt([n |-> 1, d |-> 2]) = find_result
    /\ FindAt([n |-> 1, d |-> 1]) = NoRecord
    /\ Cardinality(Titled) >= 2

\* C26: a record without a title is never what find_matching_person returns, and the
\* records after it are still compared: whenever a titled record of the list, wherever
\* it stands, scores above zero and at or above the threshold, the call returns a
\* record, and one that scores no less.
C26_UntitledSkipped ==
    /\ find_result # NoRecord => find_result.title # <<>>
    /\ \A i \in Titled :
         (ScoreGE(ScoreAt(i), find_threshold) /\ ScoreGT(ScoreAt(i), ZeroScore))
           => /\ find_result # NoRecord
              /\ ~ScoreGT(ScoreAt(i), ScoreAt(ResultAt))

\* The list begins with a record without a title and the call returned the record
\* after it
C26_Witness ==
    /\ Len(find_people) >= 2
    /\ find_people[1].title = <<>>
    /\ find_result = find_people[2]

\* A step that is one find_matching_person call, by itself or within a resolution
FindStep == (rpc = "idle" /\ rpc' = "idle") \/ rpc = "find"

\* C15 as stated: a find_matching_person call leaves the store and the cache of the
\* manager as they were.
C15_FindIsPure ==
    [][FindStep => (store_people' = store_people /\ people_cache' = people_cache)]_vars

\* C15, amended: a find_matching_person call leaves the store as it was and a loaded
\* cache as it was; a cache that was not loaded is left not loaded or is loaded with
\* the whole listing of the store.
C15_FindReadsOnly ==
    [][FindStep =>
        /\ store_people' = store_people
        /\ people_cache # NoCache => people_cache' = people_cache
        /\ people_cache = NoCache => people_cache' \in {NoCache, Cached(store_people)}]_vars

\* A call by itself has loaded the cache with the listing of a store that holds people
C15_Witness ==
    /\ rpc = "idle" /\ find_name # <<>>
    /\ people_cache = Cached(store_people)
    /\ store_people # <<>>

\* ================================ properties of resolve_people_in_text
\* The name the loop iteration under way is about
CurrentName == potential_names[name_idx]
\* Whether the iteration that ends with this step made a create request, and how the
\* request ended
Requested == Len(create_log') > Len(create_log)
Accepted == Requested /\ create_log'[Len(create_log')].ok
Rejected == Requested /\ ~create_log'[Len(create_log')].ok

\* C16: every candidate is classified exactly once.  When an iteration ends, a hit or
\* an accepted creation has added one record to resolved and nothing to unresolved,
\* anything else has added the name to unresolved and nothing to resolved; so the two
\* lists together are as long as the candidates gone through, and as long as the
\* candidates when the call returns.
C16_ClassifiedOnce ==
    /\ [](/\ rpc \in {"find", "classify"} =>
                Len(resolved_people) + Len(unresolved_names) = name_idx - 1
          /\ rpc = "done" =>
                Len(resolved_people) + Len(unresolved_names) = Len(potential_names))
    /\ [][rpc = "classify" =>
            IF find_result # NoRecord \/ Accepted
              THEN /\ Len(resolved_people') = Len(resolved_people) + 1
                   /\ SubSeq(resolved_people', 1, Len(resolved_people)) = resolved_people
                   /\ unresolved_names' = unresolved_names
              ELSE /\ unresolved_names' = Append(unresolved_names, CurrentName)
                   /\ resolved_people' = resolved_people]_vars

\* A call has returned two candidates, one in each list, after a rejected creation
C16_Witness ==
    /\ rpc = "done"
    /\ Len(potential_names) = 2
    /\ Len(resolved_people) = 1 /\ Len(unresolved_names) = 1
    /\ \E k \in 1..Len(create_log) : ~create_log[k].ok

\* C17: with create_missing false no step of the call makes a create request or
\* changes the store, and an iteration about a name that no record of the searched
\* list matches at 0.8 or more appends the name to unresolved.
C17_NoCreateWhenNotAsked ==
    [][(rpc # "idle" /\ ~create_missing) =>
        /\ store_people' = store_people
        /\ create_log' = create_log
        /\ (rpc = "classify"
              /\ \A i \in Titled : ~ScoreGE(ScoreAt(i), DefaultThreshold))
             => unresolved_names' = Append(unresolved_names, CurrentName)]_vars

\* A call with create_missing false has returned a hit and a miss, and the store
\* holds no record for the miss
C17_Witness ==
    /\ rpc = "done" /\ ~create_missing
    /\ resolved_people # <<>> /\ unresolved_names # <<>>
    /\ create_log = <<>>
    /\ \A i \in 1..Len(store_people) : store_people[i].title # <<unresolved_names[1]>>

\* The names of the rejected create requests of the call, in the order of the requests
RejectedNames ==
    LET rejected == SelectSeq(create_log, LAMBDA e : ~e.ok)
    IN  [k \in 1..Len(rejected) |-> rejected[k].name]

\* C19: an iteration whose create request is rejected appends that name to unresolved,
\* leaves resolved alone and goes on to the next candidate (or returns after the
\* last); so when a call with create_missing true returns, every candidate has been
\* gone through, unresolved holds the names of the rejected requests and nothing
\* else, and resolved holds a record for each of the other candidates.
C19_FailedCreationContained ==
    /\ [][(rpc = "classify" /\ Rejected) =>
            /\ unresolved_names' = Append(unresolved_names, CurrentName)
            /\ resolved_people' = resolved_people
            /\ name_idx' = name_idx + 1
            /\ rpc' = IF name_idx < Len(potential_names) THEN "find" ELSE "done"]_vars
    /\ []((rpc = "done" /\ create_missing) =>
            /\ name_idx = Len(potential_names) + 1
            /\ unresolved_names = RejectedNames
            /\ Len(resolved_people) = Len(potential_names) - Len(RejectedNames)
            /\ \A k \in 1..Len(resolved_people) : resolved_people[k] # NoRecord)

\* The creation of the first candidate was rejected and the second candidate was
\* created after it
C19_Witness ==
    /\ rpc = "done" /\ create_missing
    /\ Len(create_log) = 2
    /\ ~create_log[1].ok /\ create_log[2].ok
    /\ unresolved_names = <<potential_names[1]>>
    /\ Len(resolved_people) = 1
    /\ resolved_people[1].title = <<potential_names[2]>>

\* ======================== properties of two callers of one PeopleManager
\* What the next get_all_people() returns if none of its requests fails
NextListing == get_all_people(people_cache, store_people, FALSE, 0).list

\* C20: once neither a load nor a create_person is under way, every person whose
\* create_person ran from its request to its return while one load was under way is
\* in the listing the cache holds, if it holds one, and in the listing the next
\* get_all_people() returns.
C20_InvalidationSafeInFlight ==
    (dpc = "idle" /\ cpc = "idle") =>
        \A id \in raced :
            /\ people_cache # NoCache =>
                 \E i \in 1..Len(people_cache.list) : people_cache.list[i].id = id
            /\ \E i \in 1..Len(NextListing) : NextListing[i].id = id

\* The orders in which list(potential_names) can give the names of the call
IterationOrders ==
    {p \in CandidateLists :
        /\ Len(p) = Len(potential_names)
        /\ \A i \in 1..Len(p) : \E j \in 1..Len(p) : p[i] = potential_names[j]}
\* What a call that begins now returns and creates if it goes through the names in
\* the given order and no request fails: the names of the resolved records, the
\* unresolved names, and the names of the records created
OutcomeOf(names) ==
    LET run == ResolveRun(names, 1, people_cache, store_people, create_missing, <<>>, <<>>)
    IN  [resolved   |-> [i \in 1..Len(run.resolved) |-> run.resolved[i].title],
         unresolved |-> run.unresolved,
         created    |-> {run.store[i].title : i \in (Len(store_people) + 1)..Len(run.store)}]

\* C21: when a call begins, what it returns and creates is the same for every order
\* in which the extracted names can be gone through.
C21_OrderIndependent ==
    (rpc = "find" /\ name_idx = 1) =>
        \A p \in IterationOrders : OutcomeOf(p) = OutcomeOf(potential_names)

\* C23: a match of a person covers the person's name and nothing more: the entity
\* part emitted for it is the name as the text spells it, so that in "<name> project"
\* the word "project" is left to a plain part.
C23_PersonMatchedByNameOnly ==
    [][(MatchStep /\ earliest_match'.entity.type = "person")
         => LowerStr(EmittedPart.content) = LowerStr(earliest_match'.entity.name)]_vars

\* C24: the entities the linker matches against are all the records of the store:
\* once the people listing gave the linker a person, every person of the database
\* that has a name is among the entities, whichever page of the listing it is on, and
\* likewise for the projects.
C24_EveryRecordListed ==
    lpc \in {"loop", "done"} =>
        /\ (\E k \in 1..Len(all_variations) : all_variations[k].entity.type = "person")
             => \A i \in 1..Len(store_people) :
                    store_people[i].title # <<>>
                      => \E k \in 1..Len(all_variations) :
                            all_variations[k].entity =
                                [name |-> store_people[i].title[1], type |-> "person"]
        /\ (\E k \in 1..Len(all_variations) : all_variations[k].entity.type = "project")
             => \A i \in 1..Len(store_projects) :
                    store_projects[i].title # <<>>
                      => \E k \in 1..Len(all_variations) :
                            all_variations[k].entity =
                                [name |-> store_projects[i].title[1], type |-> "project"]

\* C25: the part emitted for a match carries a link, and the link is the page of a
\* record of the matched entity's kind whose name is the entity's name.
C25_MentionCarriesItsEntity ==
    [][MatchStep =>
        LET entity == earliest_match'.entity
            db     == IF entity.type = "person" THEN store_people ELSE store_projects
        IN  /\ "link" \in DOMAIN EmittedPart
            /\ \E i \in 1..Len(db) :
                 /\ db[i].title # <<>>
                 /\ db[i].title[1] = entity.name
                 /\ EmittedPart.link = PageUrl(db[i].id)]_vars

\* C29: when resolve_people_in_text returns, no record is in resolved twice: the ids
\* of the resolved records are pairwise distinct, and so are the ids of the relation
\* property made of them.
C29_NoRecordTwice ==
    rpc = "done" =>
        LET ids == get_person_ids(resolved_people)
            rel == create_people_relation_property(resolved_people).relation
        IN  /\ \A i, j \in 1..Len(ids) : i # j => ids[i] # ids[j]
            /\ \A i, j \in 1..Len(rel) : i # j => rel[i].id # rel[j].id

\* C30: an iteration of resolve_people_in_text creates a person only for a name that
\* no titled record of the store matches at or above the threshold, whatever the
\* listing requests do.
C30_NoCreateForKnownName ==
    [][(rpc = "classify" /\ Accepted)
         => ~\E i \in 1..Len(store_people) :
                /\ store_people[i].title # <<>>
                /\ ScoreGE(ScoreOf(CurrentName, store_people[i]), DefaultThreshold)]_vars

\* ===================================== properties of extract_person_names

\* C22: every string extract_person_names returns has between 2 and 50 characters,
\* begins with an upper-case letter, is no stoplist word and holds only letters,
\* spaces, hyphens and apostrophes; and the names taken from an attendees,
\* participants or people list have three words at most.
C22_ResultsPassFilter ==
    xpc = "done" =>
        /\ \A n \in extracted :
              /\ Len(n) >= MinNameLen /\ Len(n) <= MaxNameLen
              /\ n[1] \in UpperLetters
              /\ n \notin NonNames
              /\ \A i \in 1..Len(n) : n[i] \in Letters \cup {" ", "-", "'"}
        /\ \A n \in ListNames(extract_text, 1) : WordCount(n) <= MaxWords

\* ================= properties of TranscriptProcessor and add_meeting_page

\* C27: a TranscriptProcessor given a People database whose schema it could not read
\* has people linking disabled: no resolve_people_in_text call is ever begun for it,
\* and so no name is extracted, looked up or created.
C27_DisabledMeansNoResolution ==
    (nm_people_manager /\ ~tp_people_manager) =>
        /\ rpc = "idle"
        /\ create_log = <<>>

\* A call of create_meeting_from_transcript that went into add_meeting_page has
\* returned
PageReturned == mpc = "done" /\ meeting_ret # "none"

\* C28: when add_meeting_page has returned, the page request was sent exactly once,
\* whether or not the people linking raised, and the call returned the page exactly
\* if the store accepted that request and the empty result otherwise.
C28_LinkingErrorContained ==
    PageReturned =>
        /\ page_requests = 1
        /\ meeting_ret \in {"page", "empty"}
        /\ meeting_ret = "page" <=> page_accepted

\* The people linking raised after a name had been resolved, and the page was returned
C28_Witness ==
    /\ PageReturned
    /\ link_raised
    /\ rpc = "raised"
    /\ resolved_people # <<>>
    /\ meeting_ret = "page"

====
